---------------------------- MODULE Spec2Model ----------------------------
(***************************************************************************)
(* A model of the release pipeline of release.py: the metadata reader,    *)
(* the repository manifest (plugins.xml) updater with its atomic write,   *)
(* the translation compile step, the archive packager, the orchestrator   *)
(* run_release_process and the entry point main.                          *)
(*                                                                         *)
(* Text is modelled as a sequence of one-character strings, so that       *)
(* str.replace, str.strip, str.rstrip, startswith and the XML escaping    *)
(* are computed character by character.                                   *)
(***************************************************************************)
EXTENDS Integers, Sequences, FiniteSets, TLC

(***************************************************************************)
(* Bounds of the model.                                                    *)
(***************************************************************************)
\* the number of release runs (invocations of main) in one behaviour
MaxRuns == 2
\* the largest number of .ts files found in the translation directory
MaxTsFiles == 1

(***************************************************************************)
(* Python str operations used by release.py.                               *)
(***************************************************************************)
Whitespace == {" ", "\t", "\n"}

StartsWithAt(s, pat, i) ==
    /\ i + Len(pat) - 1 <= Len(s)
    /\ SubSeq(s, i, i + Len(pat) - 1) = pat

\* str.replace(pat, rep): leftmost, non-overlapping occurrences, one pass
RECURSIVE ReplaceFrom(_, _, _, _)
ReplaceFrom(s, pat, rep, i) ==
    IF i > Len(s) THEN << >>
    ELSE IF StartsWithAt(s, pat, i)
         THEN rep \o ReplaceFrom(s, pat, rep, i + Len(pat))
         ELSE << s[i] >> \o ReplaceFrom(s, pat, rep, i + 1)

StrReplace(s, pat, rep) == ReplaceFrom(s, pat, rep, 1)

RECURSIVE LStripSet(_, _)
LStripSet(s, chars) ==
    IF s # << >> /\ Head(s) \in chars THEN LStripSet(Tail(s), chars) ELSE s

RECURSIVE RStripSet(_, _)
RStripSet(s, chars) ==
    IF s # << >> /\ s[Len(s)] \in chars
    THEN RStripSet(SubSeq(s, 1, Len(s) - 1), chars)
    ELSE s

\* str.strip()
StrStrip(s) == LStripSet(RStripSet(s, Whitespace), Whitespace)

\* a variant that compares the whole path
ContainsWhole(t, s) == t = s

\* s in t (substring test)
Contains(t, s) == \E i \in 1..(Len(t) + 1) : StartsWithAt(t, s, i)

\* t.endswith(s)
EndsWith(t, s) ==
    /\ Len(s) <= Len(t)
    /\ SubSeq(t, Len(t) - Len(s) + 1, Len(t)) = s

\* the characters before the first ":" (urlparse(url).scheme)
RECURSIVE UrlScheme(_)
UrlScheme(url) ==
    IF url = << >> \/ Head(url) = ":" THEN << >>
    ELSE << Head(url) >> \o UrlScheme(Tail(url))


\* str.split(): the maximal runs of non-whitespace characters, in order
RECURSIVE SplitFrom(_, _)
SplitFrom(s, cur) ==
    IF s = << >> THEN (IF cur = << >> THEN << >> ELSE << cur >>)
    ELSE IF Head(s) \in Whitespace
         THEN (IF cur = << >> THEN << >> ELSE << cur >>) \o SplitFrom(Tail(s), << >>)
         ELSE SplitFrom(Tail(s), Append(cur, Head(s)))

StrSplit(s) == SplitFrom(s, << >>)

(***************************************************************************)
(* metadata.txt and get_plugin_metadata.                                   *)
(* The file is a sequence of lines: a section header, or an option with    *)
(* the text between key and value (delim) and its value.                   *)
(***************************************************************************)
SectionLine(s) == [kind |-> "section", key |-> s, delim |-> "", value |-> << >>]
OptionLine(k, d, v) == [kind |-> "option", key |-> k, delim |-> d, value |-> v]

\* configparser's optionxform: option names are compared in lower case
OptionXform(k) == IF k = "qgisMinimumVersion" THEN "qgisminimumversion" ELSE k

RECURSIVE SectionAt(_, _)
SectionAt(lines, i) ==
    IF i = 0 THEN ""
    ELSE IF lines[i].kind = "section" THEN lines[i].key
         ELSE SectionAt(lines, i - 1)

HasSection(lines, s) ==
    \E i \in 1..Len(lines) : lines[i].kind = "section" /\ lines[i].key = s

OptionIndexes(lines, s, k) ==
    { i \in 1..Len(lines) :
        /\ lines[i].kind = "option"
        /\ OptionXform(lines[i].key) = OptionXform(k)
        /\ SectionAt(lines, i) = s }

\* configparser's default_section: its options stand in for those a section
\* does not set
cDefault == "DEFAULT"

\* config.get(section, option) raises neither NoSectionError nor NoOptionError
HasOption(lines, s, k) ==
    \/ OptionIndexes(lines, s, k) # {}
    \/ HasSection(lines, s) /\ OptionIndexes(lines, cDefault, k) # {}

\* config.get(section, option): the value with surrounding whitespace removed,
\* the section's own before that of the default section (get_plugin_metadata
\* has a value only where no lookup raises)
ConfigGet(lines, s, k) ==
    LET own == OptionIndexes(lines, s, k)
        found == IF own # {} THEN own ELSE OptionIndexes(lines, cDefault, k)
    IN  IF found = {} THEN << >>
        ELSE StrStrip(lines[CHOOSE j \in found : TRUE].value)

\* the lookups of get_plugin_metadata, in the order the dict literal makes them
RequiredOptions ==
    << <<"release", "plugin_package_name">>,
       <<"release", "files_to_package">>,
       <<"release", "dirs_to_package">>,
       <<"release", "translation_dir">>,
       <<"release", "excluded_dirs">>,
       <<"release", "excluded_extensions">>,
       <<"general", "name">>,
       <<"general", "version">>,
       <<"general", "changelog">>,
       <<"general", "description">>,
       <<"general", "qgisMinimumVersion">>,
       <<"general", "author">>,
       <<"general", "email">>,
       <<"general", "download_url_base">> >>

\* a variant in which only the lookups of [release] can raise
FirstMissingOfRelease(lines) ==
    LET bad == { n \in 1..6 :
                   ~ HasOption(lines, RequiredOptions[n][1], RequiredOptions[n][2]) }
    IN  IF bad = {} THEN 0 ELSE CHOOSE n \in bad : \A m \in bad : n <= m

\* the first lookup that raises, 0 when none does
FirstMissing(lines) ==
    LET bad == { n \in 1..Len(RequiredOptions) :
                   ~ HasOption(lines, RequiredOptions[n][1], RequiredOptions[n][2]) }
    IN  IF bad = {} THEN 0 ELSE CHOOSE n \in bad : \A m \in bad : n <= m

\* "ok", or the error get_plugin_metadata raises ReleaseScriptError for
MetadataReadError(file) ==
    IF ~ file.exists THEN "metadata_not_found"
    ELSE LET n == FirstMissing(file.lines)
         IN  IF n = 0 THEN "ok"
             ELSE IF ~ HasSection(file.lines, RequiredOptions[n][1])
                  THEN "no_section"
                  ELSE "no_option"

\* the PluginMetadata dictionary built from a complete file
BuildMetadata(lines) ==
    [ plugin_package_name  |-> ConfigGet(lines, "release", "plugin_package_name"),
      files_to_package     |-> StrSplit(ConfigGet(lines, "release", "files_to_package")),
      dirs_to_package      |-> StrSplit(ConfigGet(lines, "release", "dirs_to_package")),
      translation_dir      |-> ConfigGet(lines, "release", "translation_dir"),
      excluded_dirs        |-> StrSplit(ConfigGet(lines, "release", "excluded_dirs")),
      excluded_extensions  |-> StrSplit(ConfigGet(lines, "release", "excluded_extensions")),
      name                 |-> ConfigGet(lines, "general", "name"),
      version              |-> ConfigGet(lines, "general", "version"),
      changelog            |-> ConfigGet(lines, "general", "changelog"),
      description          |-> ConfigGet(lines, "general", "description"),
      qgis_minimum_version |-> ConfigGet(lines, "general", "qgisMinimumVersion"),
      author               |-> ConfigGet(lines, "general", "author"),
      email                |-> ConfigGet(lines, "general", "email"),
      url_base             |-> ConfigGet(lines, "general", "download_url_base") ]

\* the value of metadata before get_plugin_metadata has returned
NoMetadata ==
    [ plugin_package_name |-> << >>, files_to_package |-> << >>,
      dirs_to_package |-> << >>, translation_dir |-> << >>,
      excluded_dirs |-> << >>, excluded_extensions |-> << >>,
      name |-> << >>, version |-> << >>, changelog |-> << >>,
      description |-> << >>, qgis_minimum_version |-> << >>,
      author |-> << >>, email |-> << >>, url_base |-> << >> ]

(***************************************************************************)
(* plugins.xml: the ElementTree in memory and its serialized form.         *)
(***************************************************************************)
\* Python's None as an element's text
None == << "<None>" >>
\* a child tag or an attribute that the element does not have
Absent == << "<Absent>" >>

\* the child tags _find_or_create_plugin_node pre-populates, in its order
ChildTags ==
    << "version", "changelog", "description", "qgis_minimum_version",
       "author_name", "email", "file_name", "download_url" >>

TagSet == { ChildTags[i] : i \in 1..Len(ChildTags) }

cAmp == << "&", "a", "m", "p", ";" >>
cLt == << "&", "l", "t", ";" >>
cGt == << "&", "g", "t", ";" >>

\* ElementTree's _escape_cdata: & first, then < and >
XmlEscape(s) ==
    StrReplace(StrReplace(StrReplace(s, << "&" >>, cAmp), << "<" >>, cLt), << ">" >>, cGt)

\* the parser resolves the entity references in one pass, left to right
RECURSIVE XmlUnescapeFrom(_, _)
XmlUnescapeFrom(s, i) ==
    IF i > Len(s) THEN << >>
    ELSE IF StartsWithAt(s, cAmp, i) THEN << "&" >> \o XmlUnescapeFrom(s, i + Len(cAmp))
    ELSE IF StartsWithAt(s, cLt, i) THEN << "<" >> \o XmlUnescapeFrom(s, i + Len(cLt))
    ELSE IF StartsWithAt(s, cGt, i) THEN << ">" >> \o XmlUnescapeFrom(s, i + Len(cGt))
    ELSE << s[i] >> \o XmlUnescapeFrom(s, i + 1)

XmlUnescape(s) == XmlUnescapeFrom(s, 1)

\* an element whose text is None or "" is written as an empty element
SerializeText(t) ==
    IF t = Absent THEN Absent
    ELSE IF t = None \/ t = << >> THEN << >>
    ELSE XmlEscape(t)

\* an empty element is read back with text None
ParseText(s) ==
    IF s = Absent THEN Absent
    ELSE IF s = << >> THEN None
    ELSE XmlUnescape(s)

SerializeAttr(a) == IF a = Absent THEN Absent ELSE XmlEscape(a)
ParseAttr(s) == IF s = Absent THEN Absent ELSE XmlUnescape(s)

SerializeNode(node) ==
    [ name    |-> SerializeAttr(node.name),
      version |-> SerializeAttr(node.version),
      child   |-> [t \in TagSet |-> SerializeText(node.child[t])] ]

ParseNode(raw) ==
    [ name    |-> ParseAttr(raw.name),
      version |-> ParseAttr(raw.version),
      child   |-> [t \in TagSet |-> ParseText(raw.child[t])] ]

\* tree.write(...): the pyqgis_plugin children of the root, in document order
SerializeTree(root) == [i \in 1..Len(root) |-> SerializeNode(root[i])]
\* DefET.parse(...).getroot() of a well-formed file
ParseTree(raw) == [i \in 1..Len(raw) |-> ParseNode(raw[i])]

\* the states of a file that holds, or should hold, an XML document
FileAbsent == [kind |-> "absent", entries |-> << >>]
\* created or opened for writing, the document not or not wholly written
FilePartial == [kind |-> "partial", entries |-> << >>]
\* present and not well-formed XML
FileMalformed == [kind |-> "malformed", entries |-> << >>]
FileDoc(raw) == [kind |-> "doc", entries |-> raw]

\* a variant that starts from an empty root when the file cannot be parsed
LoadXmlFallsBack(file) ==
    IF file.kind = "doc"
    THEN [raises |-> FALSE, root |-> ParseTree(file.entries)]
    ELSE [raises |-> FALSE, root |-> << >>]

\* _load_or_create_xml_tree: the root, or that ParseError was raised
LoadXml(file) ==
    IF file.kind = "absent" THEN [raises |-> FALSE, root |-> << >>]
    ELSE IF file.kind = "doc" THEN [raises |-> FALSE, root |-> ParseTree(file.entries)]
    ELSE [raises |-> TRUE, root |-> << >>]

(***************************************************************************)
(* The manifest operations of update_repository_file, on the tree.         *)
(***************************************************************************)
LowerChar(c) == IF c = "A" THEN "a" ELSE IF c = "B" THEN "b" ELSE c
StrLower(s) == [i \in 1..Len(s) |-> LowerChar(s[i])]

\* a variant that compares the names without regard to case
NodeMatchesIgnoreCase(node, plugin_name) ==
    /\ node.name # Absent
    /\ StrLower(node.name) = StrLower(plugin_name)

\* node.get("name") == plugin_name: exact, case-sensitive
NodeMatches(node, plugin_name) == node.name = plugin_name

\* a variant without the name filter: the first pyqgis_plugin child
FindPluginNodeUnfiltered(root, plugin_name) == IF root = << >> THEN 0 ELSE 1

\* the first pyqgis_plugin child of the root that matches, 0 when none does
FindPluginNode(root, plugin_name) ==
    LET hits == { i \in 1..Len(root) : NodeMatches(root[i], plugin_name) }
    IN  IF hits = {} THEN 0 ELSE CHOOSE i \in hits : \A j \in hits : i <= j

\* SubElement(root, "pyqgis_plugin", name=...) with its eight empty child tags
NewPluginNode(plugin_name) ==
    [ name |-> plugin_name, version |-> Absent, child |-> [t \in TagSet |-> None] ]

\* a variant that never looks for an existing node
FindOrCreateAlwaysCreates(root, plugin_name) ==
    [ root |-> Append(root, NewPluginNode(plugin_name)), at |-> Len(root) + 1 ]

\* _find_or_create_plugin_node: the root after the call, and the node's place
FindOrCreatePluginNode(root, plugin_name) ==
    LET i == FindPluginNode(root, plugin_name)
    IN  IF i = 0
        THEN [ root |-> Append(root, NewPluginNode(plugin_name)), at |-> Len(root) + 1 ]
        ELSE [ root |-> root, at |-> i ]

\* a variant that sets the text of an existing child only
UpdateXmlTagExisting(node, tag_name, value) ==
    IF node.child[tag_name] = Absent THEN node
    ELSE [node EXCEPT !.child[tag_name] = value]

\* _update_xml_tag: find the child, create it when it is absent, set its text
UpdateXmlTag(node, tag_name, value) == [node EXCEPT !.child[tag_name] = value]

\* plugin_name.replace(" ", "_")
CleanPluginName(plugin_name) == StrReplace(plugin_name, << " " >>, << "_" >>)

cZip == << ".", "z", "i", "p" >>

ZipFileName(plugin_name) == CleanPluginName(plugin_name) \o cZip

\* a variant that keeps the trailing slashes
RStripSlashMissing(url_base) == url_base

\* metadata['url_base'].rstrip('/')
RStripSlash(url_base) == RStripSet(url_base, { "/" })

DownloadUrl(md) == RStripSlash(md.url_base) \o << "/" >> \o ZipFileName(md.name)

\* _update_plugin_node_details
UpdatePluginNodeDetails(node, md) ==
    LET n0 == [node EXCEPT !.version = md.version]
        n1 == UpdateXmlTag(n0, "version", md.version)
        n2 == UpdateXmlTag(n1, "description", md.description)
        n3 == UpdateXmlTag(n2, "changelog", md.changelog)
        n4 == UpdateXmlTag(n3, "qgis_minimum_version", md.qgis_minimum_version)
        n5 == UpdateXmlTag(n4, "author_name", md.author)
        n6 == UpdateXmlTag(n5, "email", md.email)
        n7 == UpdateXmlTag(n6, "file_name", ZipFileName(md.name))
    IN  UpdateXmlTag(n7, "download_url", DownloadUrl(md))

\* steps 3 and 4 of update_repository_file, on the root loaded in step 2
UpdatedRoot(root, md) ==
    LET found == FindOrCreatePluginNode(root, md.name)
    IN  [ found.root EXCEPT ![found.at] = UpdatePluginNodeDetails(found.root[found.at], md) ]

\* _file_url_to_path raises ReleaseScriptError unless the scheme is file
cFile == << "f", "i", "l", "e" >>
IsFileUrl(url) == UrlScheme(url) = cFile

(***************************************************************************)
(* run_release_process: the release name.                                  *)
(***************************************************************************)
DevMarker == << "(", "d", "e", "v", ")" >>

\* original_name.replace("(dev)", "").strip()
ReleaseName(original_name) == StrStrip(StrReplace(original_name, DevMarker, << >>))

\* a variant without the check
ReleaseNameEmptyUnchecked(release_name) == FALSE

\* `if not release_name`
ReleaseNameEmpty(release_name) == release_name = << >>

\* a variant that catches every exception
MainCatchesAll(exception) == TRUE

\* main's `except ReleaseScriptError`
MainCatches(exception) == exception = "ReleaseScriptError"

(***************************************************************************)
(* The plugin's working directory: the files release.py can package, in    *)
(* the order os.walk meets them. dir is the directory's relative path ("" *)
(* for the working directory itself), name the file's name.                *)
(***************************************************************************)
cMetadataTxt == << "metadata.txt" >>

ProjectFiles ==
    << [dir |-> << >>, name |-> cMetadataTxt],
       [dir |-> << >>, name |-> << "m" >>],
       [dir |-> << "u" >>, name |-> << "a" >>],
       [dir |-> << "u" >>, name |-> << "b", ".", "q" >>],
       [dir |-> << "u", "/", "c" >>, name |-> << "a" >>] >>

\* Path(path_str): pathlib drops the "." components of a relative path
RECURSIVE PathOf(_)
PathOf(path_str) ==
    IF StartsWithAt(path_str, << ".", "/" >>, 1)
    THEN PathOf(SubSeq(path_str, 3, Len(path_str)))
    ELSE path_str

\* Path(dir) / name
JoinPath(dir, name) == IF dir = << >> THEN name ELSE dir \o << "/" >> \o name

\* a variant that takes every listed file to exist
FileExistsUnchecked(path) == TRUE

\* Path(file_str).exists(), for a listed individual file
FileExists(path) ==
    \E i \in 1..Len(ProjectFiles) :
        JoinPath(ProjectFiles[i].dir, ProjectFiles[i].name) = path

\* the directory d is dir_path itself or lies below it
DirUnder(d, dir_path) ==
    \/ d = dir_path
    \/ StartsWithAt(d, dir_path \o << "/" >>, 1)

\* Path(dir_str).is_dir()
IsDir(dir_path) ==
    \E i \in 1..Len(ProjectFiles) : DirUnder(ProjectFiles[i].dir, dir_path)

(***************************************************************************)
(* The archive: the entries written to the ZipFile, in order.              *)
(***************************************************************************)
\* _get_clean_metadata_content: every line that starts, after strip(), with
\* "name=" becomes "name=<plugin_name>"; every other line is kept
CleanLine(line, plugin_name) ==
    IF line.kind = "option" /\ line.key = "name" /\ line.delim = "="
    THEN OptionLine("name", "=", plugin_name)
    ELSE line

CleanMetadataContent(lines, plugin_name) ==
    [i \in 1..Len(lines) |-> CleanLine(lines[i], plugin_name)]

\* (Path(plugin_zip_dir) / path).as_posix()
ArcName(plugin_zip_dir, path) == JoinPath(plugin_zip_dir, path)

CleanEntry(plugin_zip_dir, content) ==
    [arcname |-> ArcName(plugin_zip_dir, cMetadataTxt), from |-> "memory", content |-> content]

DiskEntry(plugin_zip_dir, path) ==
    [arcname |-> ArcName(plugin_zip_dir, path), from |-> "disk", content |-> << >>]

\* _add_files_to_zip: the entries the loop writes for files[1..n]
RECURSIVE FileEntries(_, _, _, _)
FileEntries(files, n, plugin_zip_dir, content) ==
    IF n = 0 THEN << >>
    ELSE LET before == FileEntries(files, n - 1, plugin_zip_dir, content)
             f == files[n]
         IN  IF f = cMetadataTxt THEN Append(before, CleanEntry(plugin_zip_dir, content))
             ELSE IF FileExists(PathOf(f))
                  THEN Append(before, DiskEntry(plugin_zip_dir, PathOf(f)))
                  ELSE before

\* the inner loops of _add_directories_to_zip for one listed directory
RECURSIVE WalkEntries(_, _, _, _, _)
WalkEntries(n, dir_path, plugin_zip_dir, excluded_dirs, excluded_extensions) ==
    IF n = 0 THEN << >>
    ELSE LET before == WalkEntries(n - 1, dir_path, plugin_zip_dir,
                                   excluded_dirs, excluded_extensions)
             f == ProjectFiles[n]
             skip ==
                \/ ~ DirUnder(f.dir, dir_path)
                \/ \E i \in 1..Len(excluded_dirs) : Contains(f.dir, excluded_dirs[i])
                \/ \E i \in 1..Len(excluded_extensions) :
                       EndsWith(f.name, excluded_extensions[i])
         IN  IF skip THEN before
             ELSE Append(before, DiskEntry(plugin_zip_dir, JoinPath(f.dir, f.name)))

\* _add_directories_to_zip: the entries the loop writes for dirs[1..n]
RECURSIVE DirEntries(_, _, _, _, _)
DirEntries(dirs, n, plugin_zip_dir, excluded_dirs, excluded_extensions) ==
    IF n = 0 THEN << >>
    ELSE LET before == DirEntries(dirs, n - 1, plugin_zip_dir,
                                  excluded_dirs, excluded_extensions)
         IN  IF ~ IsDir(dirs[n]) THEN before
             ELSE before \o WalkEntries(Len(ProjectFiles), dirs[n], plugin_zip_dir,
                                        excluded_dirs, excluded_extensions)

\* a variant without the check
NameMismatchUnchecked(md) == FALSE

\* `if plugin_zip_dir != clean_plugin_name`
NameMismatch(md) == md.plugin_package_name # CleanPluginName(md.name)

(***************************************************************************)
(* The inputs of a run: the metadata.txt the developer runs release.py on. *)
(***************************************************************************)
nameA == << "A" >>
nameLowerA == << "a" >>
nameADev == << "A", " " >> \o DevMarker
nameABDev == << "A", " ", "B", " " >> \o DevMarker

pkgA == << "A" >>
pkgLowerA == << "a" >>
pkgAB == << "A", "_", "B" >>

urlRepo == cFile \o << ":", "/", "/", "/", "r" >>
urlRepoSlashes == urlRepo \o << "/", "/" >>
urlHttp == << "h", "t", "t", "p", ":", "/", "/", "r" >>

\* files_to_package: metadata.txt, a file that exists and one that does not
filesListed == cMetadataTxt \o << " ", "m", " ", "x" >>
\* files_to_package with metadata.txt written as ./metadata.txt
filesDotSlash == << ".", "/" >> \o cMetadataTxt \o << " ", "m" >>

\* files_to_package with a file of the subdirectory u/c
filesBelow == cMetadataTxt \o << " ", "u", "/", "c", "/", "a" >>

\* name, version, plugin_package_name and download_url_base of the complete
\* files, the text between the key name and its value, files_to_package and
\* excluded_dirs
GeneralInputs ==
    { << nameA,      << "1" >>, pkgA,      urlRepo,        "=",   filesListed,   << "c" >> >>,
      << nameA,      << "2" >>, pkgLowerA, urlRepoSlashes, "=",   filesListed,   << "c" >> >>,
      << nameA,      << "2" >>, pkgA,      urlHttp,        "=",   filesListed,   << "c" >> >>,
      << nameLowerA, << "1" >>, pkgLowerA, urlRepoSlashes, "=",   filesDotSlash, << "c" >> >>,
      << nameADev,   << "2" >>, pkgA,      urlRepoSlashes, "=",   filesBelow,    << "c" >> >>,
      << nameABDev,  << "1" >>, pkgAB,     urlRepo,        " = ", filesListed,   << "u" >> >>,
      << DevMarker,  << "1" >>, pkgA,      urlRepo,        "=",   filesListed,   << "c" >> >>,
      << nameA,      << >>,     pkgA,      urlRepo,        "=",   filesListed,   << "c" >> >> }

MetadataLines(name, version, package_name, url, name_delim, files, excluded_dirs) ==
    << SectionLine("release"),
       OptionLine("plugin_package_name", "=", package_name),
       OptionLine("files_to_package", "=", files),
       OptionLine("dirs_to_package", "=", << "u" >>),
       OptionLine("translation_dir", "=", << "i" >>),
       OptionLine("excluded_dirs", "=", excluded_dirs),
       OptionLine("excluded_extensions", "=", << ".", "q" >>),
       SectionLine("general"),
       OptionLine("name", name_delim, name),
       OptionLine("version", "=", version),
       OptionLine("changelog", "=", << "&", "<" >>),
       OptionLine("description", "=", << "d" >>),
       OptionLine("qgisMinimumVersion", "=", << "3" >>),
       OptionLine("author", "=", << "u" >>),
       OptionLine("email", "=", << >>),
       OptionLine("download_url_base", "=", url) >>

CompleteFiles ==
    { [exists |-> TRUE, lines |-> MetadataLines(g[1], g[2], g[3], g[4], g[5], g[6], g[7])] :
        g \in GeneralInputs }

WithoutSection(lines, s) ==
    LET keep == { i \in 1..Len(lines) :
                    ~ (lines[i].kind = "section" /\ lines[i].key = s)
                    /\ SectionAt(lines, i) # s }
        Nth(n) == CHOOSE i \in keep : Cardinality({ j \in keep : j <= i }) = n
    IN  [n \in 1..Cardinality(keep) |-> lines[Nth(n)]]

WithoutOption(lines, k) ==
    SelectSeq(lines, LAMBDA l : ~ (l.kind = "option" /\ l.key = k))

sampleLines == MetadataLines(nameA, << "1" >>, pkgA, urlRepo, "=", filesListed, << "c" >>)

IncompleteFiles ==
    { [exists |-> FALSE, lines |-> << >>],
      [exists |-> TRUE, lines |-> WithoutSection(sampleLines, "general")],
      [exists |-> TRUE, lines |-> WithoutOption(sampleLines, "version")] }

\* a file whose [general] has no version, with one in [DEFAULT]
DefaultedFiles ==
    { [exists |-> TRUE,
       lines |-> << SectionLine(cDefault), OptionLine("version", "=", << "9" >>) >>
                 \o WithoutOption(MetadataLines(nameA, << "1" >>, pkgA, urlHttp, "=",
                                                filesListed, << "c" >>), "version")] }

MetadataFileInputs == CompleteFiles \cup IncompleteFiles \cup DefaultedFiles

(***************************************************************************)
(* The manifests a run can find in the shared repository.                  *)
(***************************************************************************)
\* an entry as an earlier release of plugin_name wrote it
WrittenEntry(plugin_name, version) ==
    SerializeNode(UpdatePluginNodeDetails(NewPluginNode(plugin_name),
        [NoMetadata EXCEPT !.name = plugin_name, !.version = version,
                           !.description = << "o" >>, !.url_base = urlRepo]))

\* an entry edited by hand: no version attribute, two child tags missing
SparseEntry(plugin_name) ==
    [ name |-> plugin_name, version |-> Absent,
      child |-> [t \in TagSet |->
                    IF t \in { "version", "email" } THEN Absent
                    ELSE IF t = "description" THEN << "h" >>
                    ELSE << >>] ]

nameZ == << "Z" >>

InitialManifests ==
    { FileAbsent,
      FileMalformed,
      FileDoc(<< WrittenEntry(nameA, << "0" >>), WrittenEntry(nameZ, << "7" >>) >>),
      FileDoc(<< SparseEntry(nameLowerA), SparseEntry(nameADev) >>) }

(***************************************************************************)
(* The state.                                                              *)
(***************************************************************************)
\* the release runs: r1 is the developer's machine; r2 is a second machine
\* that releases into the same shared repository
Procs == { "r1", "r2" }

VARIABLES
    metadataFile,   \* per run: metadata.txt in the working directory
    xmlFile,        \* plugins.xml in the shared repository
    tmpFile,        \* per run: the mkstemp file beside plugins.xml
    leftBehind,     \* a mkstemp file of an earlier call is still beside plugins.xml
    repoDir,        \* whether the shared repository directory exists
    zipFiles,       \* the archives in the shared repository, by file name
    pc,             \* per run: the statement main has reached
    metadata,       \* per run: the PluginMetadata dictionary
    originalName,   \* per run: original_name of run_release_process
    tree,           \* per run: the root of the ElementTree in memory
    pending,        \* per run: the exception being raised, "none" otherwise
    exitCode,       \* per run: << >>, or the value main returned
    uncaught,       \* per run: the exception that left main, "none" otherwise
    tsLeft,         \* per run: .ts files compile_translations has yet to compile
    runs,           \* per run: how often main has been started
    steps,          \* history, per run: the steps of the release begun so far
    failure,        \* history, per run: where and why the run raised
    atStart,        \* history, per run: the repository when main started
    writtenBy,      \* history: the metadata of the last update that wrote plugins.xml
    repeated        \* history: that update had the metadata of the one before it

\* the plugin inside QGIS: the class attributes of PluginContext, for each of
\* the two modules that define the class, and the host application
VARIABLES
    ctx_iface,      \* per module: PluginContext._iface
    ctx_plugin_dir, \* per module: PluginContext._plugin_dir
    project,        \* QgsProject.instance(): none, not saved, or saved
    barWidgets,     \* the widgets of the message bar of iface i1
    result,         \* the last call: what was called and how it ended
    effects,        \* the last call: what it did to the host, in order
    reinit          \* history: init was called on an initialised context

releaseVars ==
    << metadataFile, xmlFile, tmpFile, leftBehind, repoDir, zipFiles, pc, metadata,
       originalName, tree, pending, exitCode, uncaught, tsLeft, runs,
       steps, failure, atStart, writtenBy, repeated >>

contextVars ==
    << ctx_iface, ctx_plugin_dir, project, barWidgets, result, effects, reinit >>

vars == << releaseVars, contextVars >>

disk == << xmlFile, tmpFile, repoDir, zipFiles, leftBehind >>
locals == << metadata, originalName, tree, tsLeft >>

NoFailure == [step |-> "none", place |-> "none", cause |-> "none"]

\* the steps of run_release_process, in the order of its statements
ReleaseSteps ==
    << "read_metadata", "derive_release_name", "update_manifest",
       "compile_translations", "package_archive", "report" >>

(***************************************************************************)
(* PluginContext, in context.py and in modules/context.py, and the host.   *)
(***************************************************************************)
\* the modules that define PluginContext: src/context.py, src/modules/context.py
Modules == { "context", "modules.context" }

\* Python's None, as the value of a class attribute
cNone == "None"

\* the interfaces the host can hand over: the messageBar() of i2 is None
Ifaces == { "i1", "i2" }
PluginDirs == { "d1", "d2" }

\* QgsProject.instance() is None; fileName() is empty; fileName() is a path
ProjectStates == { "none", "unsaved", "saved" }

NoCall == [call |-> "none", module |-> "none", outcome |-> "none", value |-> << >>]

\* the class attributes as the class statement sets them, in a host with a
\* new project and one widget in its message bar
ContextLoaded ==
    /\ ctx_iface = [m \in Modules |-> cNone]
    /\ ctx_plugin_dir = [m \in Modules |-> cNone]
    /\ project = "unsaved"
    /\ barWidgets = << "widget" >>
    /\ result = NoCall
    /\ effects = << >>
    /\ reinit = FALSE

Init ==
    /\ ContextLoaded
    /\ metadataFile = [p \in Procs |-> [exists |-> FALSE, lines |-> << >>]]
    /\ xmlFile \in InitialManifests
    /\ tmpFile = [p \in Procs |-> FileAbsent]
    /\ leftBehind = FALSE
    /\ repoDir = (xmlFile.kind # "absent")
    /\ zipFiles = << >>
    /\ pc = [p \in Procs |-> "idle"]
    /\ metadata = [p \in Procs |-> NoMetadata]
    /\ originalName = [p \in Procs |-> << >>]
    /\ tree = [p \in Procs |-> << >>]
    /\ pending = [p \in Procs |-> "none"]
    /\ exitCode = [p \in Procs |-> << >>]
    /\ uncaught = [p \in Procs |-> "none"]
    /\ tsLeft = [p \in Procs |-> 0]
    /\ runs = [p \in Procs |-> 0]
    /\ steps = [p \in Procs |-> << >>]
    /\ failure = [p \in Procs |-> NoFailure]
    /\ atStart = [p \in Procs |-> [xml |-> xmlFile, zips |-> zipFiles]]
    /\ writtenBy = NoMetadata
    /\ repeated = FALSE

\* raise exception in step at place: control goes to where
Raise(p, exception, step, place, cause, where) ==
    /\ pending' = [pending EXCEPT ![p] = exception]
    /\ failure' = [failure EXCEPT ![p] = [step |-> step, place |-> place, cause |-> cause]]
    /\ pc' = [pc EXCEPT ![p] = where]

Goto(p, where) ==
    /\ pc' = [pc EXCEPT ![p] = where]
    /\ UNCHANGED << pending, failure >>

Begin(p, step) == steps' = [steps EXCEPT ![p] = Append(@, step)]

(***************************************************************************)
(* main and run_release_process.                                           *)
(***************************************************************************)
\* the developer edits metadata.txt and starts release.py
StartRun(p) ==
    /\ pc[p] = "idle"
    /\ runs[p] < MaxRuns
    /\ \E file \in MetadataFileInputs :
          metadataFile' = [metadataFile EXCEPT ![p] = file]
    /\ runs' = [runs EXCEPT ![p] = @ + 1]
    /\ pc' = [pc EXCEPT ![p] = "get_plugin_metadata"]
    /\ metadata' = [metadata EXCEPT ![p] = NoMetadata]
    /\ originalName' = [originalName EXCEPT ![p] = << >>]
    /\ tree' = [tree EXCEPT ![p] = << >>]
    /\ tsLeft' = [tsLeft EXCEPT ![p] = 0]
    /\ pending' = [pending EXCEPT ![p] = "none"]
    /\ exitCode' = [exitCode EXCEPT ![p] = << >>]
    /\ uncaught' = [uncaught EXCEPT ![p] = "none"]
    /\ steps' = [steps EXCEPT ![p] = << >>]
    /\ failure' = [failure EXCEPT ![p] = NoFailure]
    /\ atStart' = [atStart EXCEPT ![p] = [xml |-> xmlFile, zips |-> zipFiles]]
    /\ UNCHANGED << disk, writtenBy, repeated >>
    /\ UNCHANGED contextVars

GetPluginMetadata(p) ==
    /\ pc[p] = "get_plugin_metadata"
    /\ Begin(p, "read_metadata")
    /\ LET error == MetadataReadError(metadataFile[p])
       IN  IF error = "ok"
           THEN /\ metadata' = [metadata EXCEPT ![p] = BuildMetadata(metadataFile[p].lines)]
                /\ Goto(p, "derive_release_name")
           ELSE /\ Raise(p, "ReleaseScriptError", "read_metadata", error, "config", "main_except")
                /\ UNCHANGED metadata
    /\ UNCHANGED << metadataFile, disk, originalName, tree, tsLeft, exitCode,
                    uncaught, runs, atStart, writtenBy, repeated >>
    /\ UNCHANGED contextVars

DeriveReleaseName(p) ==
    /\ pc[p] = "derive_release_name"
    /\ Begin(p, "derive_release_name")
    /\ originalName' = [originalName EXCEPT ![p] = metadata[p].name]
    /\ LET release_name == ReleaseName(metadata[p].name)
       IN  IF ReleaseNameEmpty(release_name)
           THEN /\ Raise(p, "ReleaseScriptError", "derive_release_name", "empty_name",
                         "config", "main_except")
                /\ UNCHANGED metadata
           ELSE /\ metadata' = [metadata EXCEPT ![p].name = release_name]
                /\ Goto(p, "get_repository_path")
    /\ UNCHANGED << metadataFile, disk, tree, tsLeft, exitCode, uncaught, runs,
                    atStart, writtenBy, repeated >>
    /\ UNCHANGED contextVars

(***************************************************************************)
(* update_repository_file.                                                 *)
(***************************************************************************)
\* _get_repository_path: _file_url_to_path, then mkdir(parents, exist_ok)
GetRepositoryPath(p) ==
    /\ pc[p] = "get_repository_path"
    /\ Begin(p, "update_manifest")
    /\ \/ /\ ~ IsFileUrl(metadata[p].url_base)
          /\ Raise(p, "ReleaseScriptError", "update_manifest", "url_scheme",
                   "config", "main_except")
          /\ UNCHANGED repoDir
       \/ /\ IsFileUrl(metadata[p].url_base)
          /\ repoDir' = TRUE
          /\ Goto(p, "load_xml")
       \/ /\ IsFileUrl(metadata[p].url_base)
          /\ Raise(p, "ReleaseScriptError", "update_manifest", "mkdir",
                   "OSError", "main_except")
          /\ UNCHANGED repoDir
    /\ UNCHANGED << metadataFile, xmlFile, tmpFile, leftBehind, zipFiles, locals, exitCode,
                    uncaught, runs, atStart, writtenBy, repeated >>
    /\ UNCHANGED contextVars

\* _load_or_create_xml_tree
LoadOrCreateXmlTree(p) ==
    /\ pc[p] = "load_xml"
    /\ LET loaded == LoadXml(xmlFile)
       IN  IF loaded.raises
           THEN /\ Raise(p, "ReleaseScriptError", "update_manifest", "parse",
                         "ParseError", "main_except")
                /\ UNCHANGED tree
           ELSE /\ tree' = [tree EXCEPT ![p] = loaded.root]
                /\ Goto(p, "update_node")
    /\ UNCHANGED << metadataFile, disk, metadata, originalName, tsLeft, exitCode,
                    uncaught, runs, steps, atStart, writtenBy, repeated >>
    /\ UNCHANGED contextVars

\* _find_or_create_plugin_node and _update_plugin_node_details
FindAndUpdatePluginNode(p) ==
    /\ pc[p] = "update_node"
    /\ tree' = [tree EXCEPT ![p] = UpdatedRoot(tree[p], metadata[p])]
    /\ Goto(p, "mkstemp")
    /\ UNCHANGED << metadataFile, disk, metadata, originalName, tsLeft, exitCode,
                    uncaught, runs, steps, atStart, writtenBy, repeated >>
    /\ UNCHANGED contextVars

\* _write_plugin_xml: tempfile.mkstemp and os.close, before the try
Mkstemp(p) ==
    /\ pc[p] = "mkstemp"
    /\ \/ /\ tmpFile' = [tmpFile EXCEPT ![p] = FilePartial]
          /\ Goto(p, "tree_write")
          /\ UNCHANGED leftBehind
       \/ /\ Raise(p, "OSError", "update_manifest", "mkstemp", "OSError", "main_except")
          /\ UNCHANGED << tmpFile, leftBehind >>
       \/ \* mkstemp has created the file and os.close(tmp_fd) raises: the try
          \* is not entered, so nothing unlinks the file
          /\ leftBehind' = TRUE
          /\ Raise(p, "OSError", "update_manifest", "close", "OSError", "main_except")
          /\ UNCHANGED tmpFile
    /\ UNCHANGED << metadataFile, xmlFile, repoDir, zipFiles, locals, exitCode,
                    uncaught, runs, steps, atStart, writtenBy, repeated >>
    /\ UNCHANGED contextVars

\* a variant that writes the destination in place
TreeWriteTargetDestination == "destination"

\* the file tree.write is given: tmp_name
TreeWriteTarget == "tmp"

\* the file tree.write writes to becomes content
WriteTo(p, content) ==
    IF TreeWriteTarget = "tmp"
    THEN /\ tmpFile' = [tmpFile EXCEPT ![p] = content]
         /\ UNCHANGED xmlFile
    ELSE /\ xmlFile' = content
         /\ UNCHANGED tmpFile

\* tree.write(tmp_name, ...): the document is written and the file closed,
\* or an OSError leaves the file part-written
TreeWrite(p) ==
    /\ pc[p] = "tree_write"
    /\ \/ /\ WriteTo(p, FileDoc(SerializeTree(tree[p])))
          /\ Goto(p, "replace")
       \/ /\ WriteTo(p, FilePartial)
          /\ Raise(p, "ReleaseScriptError", "update_manifest", "write",
                   "OSError", "write_finally")
    /\ UNCHANGED << metadataFile, repoDir, leftBehind, zipFiles, locals, exitCode,
                    uncaught, runs, steps, atStart, writtenBy, repeated >>
    /\ UNCHANGED contextVars

\* Path(tmp_name).replace(destination_path): an atomic rename
ReplaceDestination(p) ==
    /\ pc[p] = "replace"
    /\ \/ /\ xmlFile' = tmpFile[p]
          /\ tmpFile' = [tmpFile EXCEPT ![p] = FileAbsent]
          /\ writtenBy' = metadata[p]
          /\ repeated' = (writtenBy = metadata[p])
          /\ Goto(p, "write_finally")
       \/ /\ Raise(p, "ReleaseScriptError", "update_manifest", "replace",
                   "OSError", "write_finally")
          /\ UNCHANGED << xmlFile, tmpFile, writtenBy, repeated >>
    /\ UNCHANGED << metadataFile, repoDir, leftBehind, zipFiles, locals, exitCode,
                    uncaught, runs, steps, atStart >>
    /\ UNCHANGED contextVars

\* finally: Path(tmp_name).unlink(missing_ok=True)
WriteFinally(p) ==
    /\ pc[p] = "write_finally"
    /\ tmpFile' = [tmpFile EXCEPT ![p] = FileAbsent]
    /\ pc' = [pc EXCEPT ![p] =
                IF pending[p] = "none" THEN "compile_translations" ELSE "main_except"]
    /\ UNCHANGED << metadataFile, xmlFile, repoDir, leftBehind, zipFiles, locals, pending,
                    exitCode, uncaught, runs, steps, failure, atStart, writtenBy, repeated >>
    /\ UNCHANGED contextVars

(***************************************************************************)
(* compile_translations and run_command.                                   *)
(***************************************************************************)
CompileTranslations(p) ==
    /\ pc[p] = "compile_translations"
    /\ Begin(p, "compile_translations")
    /\ \/ \* the translation directory does not exist: skipped
          /\ tsLeft' = [tsLeft EXCEPT ![p] = 0]
          /\ Goto(p, "package_plugin")
       \/ \* it exists and holds n .ts files
          \E n \in 0..MaxTsFiles :
             /\ tsLeft' = [tsLeft EXCEPT ![p] = n]
             /\ Goto(p, IF n = 0 THEN "package_plugin" ELSE "lrelease")
    /\ UNCHANGED << metadataFile, disk, metadata, originalName, tree, exitCode,
                    uncaught, runs, atStart, writtenBy, repeated >>
    /\ UNCHANGED contextVars

\* run_command(["lrelease", ts_file]) for the next .ts file
RunLrelease(p) ==
    /\ pc[p] = "lrelease"
    /\ \/ /\ tsLeft' = [tsLeft EXCEPT ![p] = @ - 1]
          /\ Goto(p, IF tsLeft[p] = 1 THEN "package_plugin" ELSE "lrelease")
       \/ \* lrelease exits non-zero: CalledProcessError, re-raised twice
          /\ Raise(p, "ReleaseScriptError", "compile_translations", "lrelease",
                   "CalledProcessError", "main_except")
          /\ UNCHANGED tsLeft
       \/ \* lrelease is not on the PATH: subprocess.run raises FileNotFoundError
          /\ Raise(p, "FileNotFoundError", "compile_translations", "lrelease",
                   "FileNotFoundError", "main_except")
          /\ UNCHANGED tsLeft
    /\ UNCHANGED << metadataFile, disk, metadata, originalName, tree, exitCode,
                    uncaught, runs, steps, atStart, writtenBy, repeated >>
    /\ UNCHANGED contextVars

(***************************************************************************)
(* package_plugin.                                                         *)
(***************************************************************************)
ZipOf(p) == ZipFileName(metadata[p].name)

SetZip(p, state, entries) ==
    zipFiles' = (ZipOf(p) :> [state |-> state, entries |-> entries]) @@ zipFiles

\* the name check, before anything is read or opened
PackagePlugin(p) ==
    /\ pc[p] = "package_plugin"
    /\ Begin(p, "package_archive")
    /\ IF NameMismatch(metadata[p])
       THEN Raise(p, "ReleaseScriptError", "package_archive", "name_mismatch",
                  "config", "main_except")
       ELSE Goto(p, "zip_open")
    /\ UNCHANGED << metadataFile, disk, locals, exitCode, uncaught, runs,
                    atStart, writtenBy, repeated >>
    /\ UNCHANGED contextVars

\* zipfile.ZipFile(zip_path, mode="w"): creates the file, or empties it
ZipOpen(p) ==
    /\ pc[p] = "zip_open"
    /\ \/ /\ SetZip(p, "open", << >>)
          /\ Goto(p, "zip_files")
       \/ /\ Raise(p, "OSError", "package_archive", "zip_open", "OSError", "main_except")
          /\ UNCHANGED zipFiles
    /\ UNCHANGED << metadataFile, xmlFile, tmpFile, repoDir, leftBehind, locals, exitCode,
                    uncaught, runs, steps, atStart, writtenBy, repeated >>
    /\ UNCHANGED contextVars

\* the entries _add_files_to_zip writes for the first n listed files
FilesWritten(p, n) ==
    FileEntries(metadata[p].files_to_package, n, metadata[p].plugin_package_name,
                CleanMetadataContent(metadataFile[p].lines, metadata[p].name))

\* the entries _add_directories_to_zip writes
DirsWritten(p) ==
    DirEntries(metadata[p].dirs_to_package, Len(metadata[p].dirs_to_package),
               metadata[p].plugin_package_name,
               metadata[p].excluded_dirs, metadata[p].excluded_extensions)

\* _add_files_to_zip; a write that fails leaves the with block, which closes
\* the archive: what an incomplete archive holds is not modelled
ZipAddFiles(p) ==
    /\ pc[p] = "zip_files"
    /\ LET files == metadata[p].files_to_package
       IN  \/ /\ SetZip(p, "open", FilesWritten(p, Len(files)))
              /\ Goto(p, "zip_dirs")
           \/ /\ FilesWritten(p, Len(files)) # << >>
              /\ SetZip(p, "incomplete", << >>)
              /\ Raise(p, "OSError", "package_archive", "zip_write",
                       "OSError", "main_except")
    /\ UNCHANGED << metadataFile, xmlFile, tmpFile, repoDir, leftBehind, locals, exitCode,
                    uncaught, runs, steps, atStart, writtenBy, repeated >>
    /\ UNCHANGED contextVars

\* _add_directories_to_zip
ZipAddDirs(p) ==
    /\ pc[p] = "zip_dirs"
    /\ LET have == zipFiles[ZipOf(p)].entries
           more == DirsWritten(p)
       IN  \/ /\ SetZip(p, "open", have \o more)
              /\ Goto(p, "zip_close")
           \/ /\ more # << >>
              /\ SetZip(p, "incomplete", << >>)
              /\ Raise(p, "OSError", "package_archive", "zip_write",
                       "OSError", "main_except")
    /\ UNCHANGED << metadataFile, xmlFile, tmpFile, repoDir, leftBehind, locals, exitCode,
                    uncaught, runs, steps, atStart, writtenBy, repeated >>
    /\ UNCHANGED contextVars

\* the end of the with block: the archive is closed
ZipClose(p) ==
    /\ pc[p] = "zip_close"
    /\ SetZip(p, "complete", zipFiles[ZipOf(p)].entries)
    /\ Goto(p, "report")
    /\ UNCHANGED << metadataFile, xmlFile, tmpFile, repoDir, leftBehind, locals, exitCode,
                    uncaught, runs, steps, atStart, writtenBy, repeated >>
    /\ UNCHANGED contextVars

\* the closing log lines of run_release_process
Report(p) ==
    /\ pc[p] = "report"
    /\ Begin(p, "report")
    /\ Goto(p, "main_return")
    /\ UNCHANGED << metadataFile, disk, locals, exitCode, uncaught, runs,
                    atStart, writtenBy, repeated >>
    /\ UNCHANGED contextVars

(***************************************************************************)
(* main.                                                                   *)
(***************************************************************************)
\* run_release_process returned: return 0
MainReturn(p) ==
    /\ pc[p] = "main_return"
    /\ exitCode' = [exitCode EXCEPT ![p] = << 0 >>]
    /\ pc' = [pc EXCEPT ![p] = "idle"]
    /\ UNCHANGED << metadataFile, disk, locals, pending, uncaught, runs, steps,
                    failure, atStart, writtenBy, repeated >>
    /\ UNCHANGED contextVars

\* run_release_process raised: return 1 for a ReleaseScriptError, and let any
\* other exception leave main
MainExcept(p) ==
    /\ pc[p] = "main_except"
    /\ IF MainCatches(pending[p])
       THEN /\ exitCode' = [exitCode EXCEPT ![p] = << 1 >>]
            /\ UNCHANGED uncaught
       ELSE /\ uncaught' = [uncaught EXCEPT ![p] = pending[p]]
            /\ UNCHANGED exitCode
    /\ pc' = [pc EXCEPT ![p] = "idle"]
    /\ UNCHANGED << metadataFile, disk, locals, pending, runs, steps, failure,
                    atStart, writtenBy, repeated >>
    /\ UNCHANGED contextVars

Step(p) ==
    \/ StartRun(p)
    \/ GetPluginMetadata(p)
    \/ DeriveReleaseName(p)
    \/ GetRepositoryPath(p)
    \/ LoadOrCreateXmlTree(p)
    \/ FindAndUpdatePluginNode(p)
    \/ Mkstemp(p)
    \/ TreeWrite(p)
    \/ ReplaceDestination(p)
    \/ WriteFinally(p)
    \/ CompileTranslations(p)
    \/ RunLrelease(p)
    \/ PackagePlugin(p)
    \/ ZipOpen(p)
    \/ ZipAddFiles(p)
    \/ ZipAddDirs(p)
    \/ ZipClose(p)
    \/ Report(p)
    \/ MainReturn(p)
    \/ MainExcept(p)

\* release runs one after the other, on the developer's machine
Next == Step("r1")

Spec == Init /\ [][Next]_vars

(***************************************************************************)
(* Two machines release two different plugins into the same repository,    *)
(* each once. Nothing in release.py locks plugins.xml, so the statements   *)
(* of the two runs interleave in any order.                                *)
(***************************************************************************)
sharedLinesA == MetadataLines(nameA, << "2" >>, pkgA, urlRepo, "=", filesListed, << "c" >>)
sharedLinesZ == MetadataLines(nameZ, << "8" >>, nameZ, urlRepoSlashes, "=", filesListed, << "c" >>)

\* the metadata.txt in the working directory of each machine
SharedInput(p) ==
    [exists |-> TRUE, lines |-> IF p = "r1" THEN sharedLinesA ELSE sharedLinesZ]

\* main is started on the machine, which has not released before
StartShared(p) ==
    /\ pc[p] = "idle"
    /\ runs[p] = 0
    /\ metadataFile' = [metadataFile EXCEPT ![p] = SharedInput(p)]
    /\ runs' = [runs EXCEPT ![p] = @ + 1]
    /\ pc' = [pc EXCEPT ![p] = "get_plugin_metadata"]
    /\ atStart' = [atStart EXCEPT ![p] = [xml |-> xmlFile, zips |-> zipFiles]]
    /\ UNCHANGED << disk, locals, pending, exitCode, uncaught, steps, failure,
                    writtenBy, repeated, contextVars >>

StepShared(p) ==
    \/ StartShared(p)
    \/ GetPluginMetadata(p)
    \/ DeriveReleaseName(p)
    \/ GetRepositoryPath(p)
    \/ LoadOrCreateXmlTree(p)
    \/ FindAndUpdatePluginNode(p)
    \/ Mkstemp(p)
    \/ TreeWrite(p)
    \/ ReplaceDestination(p)
    \/ WriteFinally(p)
    \/ CompileTranslations(p)
    \/ RunLrelease(p)
    \/ PackagePlugin(p)
    \/ ZipOpen(p)
    \/ ZipAddFiles(p)
    \/ ZipAddDirs(p)
    \/ ZipClose(p)
    \/ Report(p)
    \/ MainReturn(p)
    \/ MainExcept(p)

NextShared == \E p \in Procs : StepShared(p)

SpecShared == Init /\ [][NextShared]_vars

(***************************************************************************)
(* logs_and_errors.py and modules/context.py: log, display and raise.      *)
(* A call ends as [outcome, value, effects]: it returns value, or raises   *)
(* the exception value, after the effects on the host, in order.           *)
(***************************************************************************)
Returns(value) == [outcome |-> "returns", value |-> value, effects |-> << >>]

Raises(exception, effs) == [outcome |-> "raises", value |-> << exception >>, effects |-> effs]

\* QgsMessageLog.logMessage(text, level=level)
LogMessage(level, text) == [op |-> "logMessage", level |-> level, text |-> text]
ClearWidgets == [op |-> "clearWidgets", level |-> "", text |-> << >>]
PushMessage(level, text) == [op |-> "pushMessage", level |-> level, text |-> text]
RaiseError(exception, text) == [op |-> "raise", level |-> exception, text |-> text]

\* file_line(inspect.currentframe()): " [file: line]" of the caller
file_line == << "[file: line]" >>

\* PluginContext.message_bar(): `cls._iface.messageBar() if cls._iface else None`
message_bar(m) ==
    IF ctx_iface[m] # cNone /\ ctx_iface[m] = "i1" THEN "messageBar of i1" ELSE cNone

\* a variant that uses the message bar without the test
show_message_unguarded(message, level) ==
    IF message_bar("context") # cNone
    THEN << ClearWidgets, PushMessage(level, message) >>
    ELSE << RaiseError("AttributeError", << "clearWidgets" >>) >>

\* show_message, of logs_and_errors.py, which imports PluginContext from
\* context.py; logMessage without a level logs at its default, Warning
show_message(message, level) ==
    IF message_bar("context") # cNone
    THEN << ClearWidgets, PushMessage(level, message) >>
    ELSE << LogMessage("Warning", << "message bar not available!" >>) >>

raise_runtime_error(error_msg) ==
    LET msg == error_msg \o file_line
    IN  Raises("CustomRuntimeError",
               << LogMessage("Critical", msg) >> \o show_message(msg, "Critical")
                  \o << RaiseError("CustomRuntimeError", msg) >>)

raise_user_error(error_msg) ==
    Raises("CustomUserError",
           << LogMessage("Warning", error_msg \o file_line) >>
              \o show_message(error_msg, "Warning")
              \o << RaiseError("CustomUserError", error_msg) >>)

\* raise_context_runtime_error, of modules/context.py
raise_context_runtime_error(error_msg) ==
    LET msg == error_msg \o file_line
    IN  Raises("ContextRuntimeError",
               << LogMessage("Critical", msg), RaiseError("ContextRuntimeError", msg) >>)

\* the internal error of the module: context.py imports raise_runtime_error
raise_internal(m, error_msg) ==
    IF m = "context" THEN raise_runtime_error(error_msg)
    ELSE raise_context_runtime_error(error_msg)

(***************************************************************************)
(* The accessors of PluginContext.                                         *)
(***************************************************************************)
\* a variant of init that keeps the references once they are set
InitKeepsFirst(stored, given) == IF stored = cNone THEN given ELSE stored

\* init: `cls._iface = iface`, `cls._plugin_dir = plugin_dir`
InitValue(stored, given) == given

iface(m) ==
    IF ctx_iface[m] = cNone
    THEN raise_internal(m, << "PluginContext not initialized with iface." >>)
    ELSE Returns(<< ctx_iface[m] >>)

get_project(m) ==
    IF project = "none"
    THEN raise_internal(m, << "No QGIS project is currently open." >>)
    ELSE Returns(<< "project" >>)

\* a variant without the test for None
plugin_dir_unchecked(m) == Returns(<< ctx_plugin_dir[m] >>)

plugin_dir(m) ==
    IF ctx_plugin_dir[m] = cNone
    THEN raise_internal(m, << "PluginContext not initialized with plugin_dir." >>)
    ELSE Returns(<< ctx_plugin_dir[m] >>)

\* called / name, where the call may have raised
Below_(called, name) ==
    IF called.outcome = "raises" THEN called ELSE Returns(called.value \o << name >>)

resources_path(m) == Below_(plugin_dir(m), "resources")
icons_path(m) == Below_(resources_path(m), "icons")
templates_path(m) == Below_(resources_path(m), "templates")

\* project_path: context.py raises the user error for a project that is not
\* saved, modules/context.py its ContextRuntimeError
project_path(m) ==
    LET called == get_project(m)
        msg == << "Project is not saved. Please save the project first." >>
    IN  IF called.outcome = "raises" THEN called
        ELSE IF project = "unsaved"
             THEN IF m = "context" THEN raise_user_error(msg)
                  ELSE raise_context_runtime_error(msg)
             ELSE Returns(<< "project.qgz" >>)

(***************************************************************************)
(* The calls the plugin makes, one action for each.                        *)
(***************************************************************************)
\* the message bar after the effects of a call
RECURSIVE WidgetsAfter(_, _)
WidgetsAfter(widgets, effs) ==
    IF effs = << >> THEN widgets
    ELSE LET e == Head(effs)
         IN  WidgetsAfter(IF e.op = "clearWidgets" THEN << >>
                          ELSE IF e.op = "pushMessage" THEN Append(widgets, e.level)
                          ELSE widgets,
                          Tail(effs))

\* the call name of module m ends as called
Call(m, name, called) ==
    /\ result' = [call |-> name, module |-> m,
                  outcome |-> called.outcome, value |-> called.value]
    /\ effects' = called.effects
    /\ barWidgets' = WidgetsAfter(barWidgets, called.effects)
    /\ UNCHANGED << ctx_iface, ctx_plugin_dir, project, reinit, releaseVars >>

CallInit(m) ==
    \E i \in Ifaces, d \in PluginDirs :
        /\ ctx_iface' = [ctx_iface EXCEPT ![m] = InitValue(@, i)]
        /\ ctx_plugin_dir' = [ctx_plugin_dir EXCEPT ![m] = InitValue(@, d)]
        /\ reinit' = (reinit \/ ctx_iface[m] # cNone)
        /\ result' = [call |-> "init", module |-> m, outcome |-> "returns",
                      value |-> << i, d >>]
        /\ effects' = << >>
        /\ UNCHANGED << project, barWidgets, releaseVars >>

CallIface(m) == Call(m, "iface", iface(m))
CallProject(m) == Call(m, "project", get_project(m))
CallMessageBar(m) == Call(m, "message_bar", Returns(<< message_bar(m) >>))
CallPluginDir(m) == Call(m, "plugin_dir", plugin_dir(m))
CallResourcesPath(m) == Call(m, "resources_path", resources_path(m))
CallIconsPath(m) == Call(m, "icons_path", icons_path(m))
CallTemplatesPath(m) == Call(m, "templates_path", templates_path(m))
CallProjectPath(m) == Call(m, "project_path", project_path(m))

\* plugin code calls the functions of logs_and_errors.py itself
CallRaiseRuntimeError ==
    Call("context", "raise_runtime_error", raise_runtime_error(<< "message" >>))

CallRaiseUserError ==
    Call("context", "raise_user_error", raise_user_error(<< "message" >>))

\* the user opens, saves or closes a project
ProjectChanges ==
    /\ \E state \in ProjectStates : state # project /\ project' = state
    /\ UNCHANGED << ctx_iface, ctx_plugin_dir, barWidgets, result, effects,
                    reinit, releaseVars >>

ContextStep(m) ==
    \/ CallInit(m)
    \/ CallIface(m)
    \/ CallProject(m)
    \/ CallMessageBar(m)
    \/ CallPluginDir(m)
    \/ CallResourcesPath(m)
    \/ CallIconsPath(m)
    \/ CallTemplatesPath(m)
    \/ CallProjectPath(m)

NextContext ==
    \/ \E m \in Modules : ContextStep(m)
    \/ CallRaiseRuntimeError
    \/ CallRaiseUserError
    \/ ProjectChanges

\* the plugin in a QGIS session: no release is running
InitContext == Init /\ xmlFile = FileAbsent

SpecContext == InitContext /\ [][NextContext]_vars

(***************************************************************************)
(* What the properties below read off the state.                           *)
(***************************************************************************)
\* the entries a reader of plugins.xml finds
ManifestOf(file) == IF file.kind = "doc" THEN ParseTree(file.entries) ELSE << >>
Manifest == ManifestOf(xmlFile)

\* the name attributes a reader of plugins.xml finds, in document order
ManifestNames(file) == [i \in 1..Len(file.entries) |-> ParseAttr(file.entries[i].name)]

EntriesNamed(root, plugin_name) ==
    { i \in 1..Len(root) : root[i].name = plugin_name }

\* the entries of the root, in order, that are not plugin_name's
OtherEntries(root, plugin_name) ==
    LET keep == { i \in 1..Len(root) : root[i].name # plugin_name }
        Nth(n) == CHOOSE i \in keep : Cardinality({ j \in keep : j <= i }) = n
    IN  [n \in 1..Cardinality(keep) |-> root[Nth(n)]]

\* run p has just renamed its temporary file over plugins.xml
Updated(p) == pc[p] = "write_finally" /\ pending[p] = "none"

\* the entries of plugins.xml when run p started: runs come one after the
\* other, so these are the entries its update loaded
Before(p) == ManifestOf(atStart[p].xml)

\* k is n with every space replaced by an underscore
Underscored(n, k) ==
    /\ Len(k) = Len(n)
    /\ \A i \in 1..Len(n) : k[i] = (IF n[i] = " " THEN "_" ELSE n[i])

\* b is url without its trailing slashes
WithoutTrailingSlash(url, b) ==
    \E k \in 0..Len(url) :
        /\ b = SubSeq(url, 1, k)
        /\ k = 0 \/ url[k] # "/"
        /\ \A j \in (k + 1)..Len(url) : url[j] = "/"

IsPrefix(s, t) == Len(s) <= Len(t) /\ s = SubSeq(t, 1, Len(s))

Finished(p) == pc[p] = "idle" /\ runs[p] > 0

\* r is orig with the development marker taken out and the white space around
\* what is left removed
MarkerRemoved(orig, r) ==
    \E i \in 1..Len(orig) :
        /\ StartsWithAt(orig, DevMarker, i)
        /\ LET rest == SubSeq(orig, 1, i - 1)
                        \o SubSeq(orig, i + Len(DevMarker), Len(orig))
           IN  \E a \in 1..(Len(rest) + 1), b \in 0..Len(rest) :
                  /\ r = SubSeq(rest, a, b)
                  /\ \A j \in 1..(a - 1) : rest[j] \in Whitespace
                  /\ \A j \in (b + 1)..Len(rest) : rest[j] \in Whitespace
                  /\ r # << >> => (r[1] \notin Whitespace /\ r[Len(r)] \notin Whitespace)

\* the places where a filesystem access of the run can fail
FilesystemPlaces ==
    { "mkdir", "mkstemp", "close", "write", "replace", "zip_open", "zip_write" }

\* run p is inside _write_plugin_xml
InWrite(p) == pc[p] \in { "tree_write", "replace", "write_finally" }

(***************************************************************************)
(* C1. After any sequence of manifest updates, from an absent manifest or  *)
(* one with at most one entry per name, the manifest holds at most one    *)
(* entry per plugin name: an update for name N appends an entry, named N, *)
(* only when no entry's name attribute equals N exactly, and otherwise    *)
(* keeps the number and the names of the entries.                         *)
(***************************************************************************)
C1_OneEntryPerName ==
    LET new == Manifest
        names == ManifestNames(xmlFile)
    IN  /\ \A i, j \in 1..Len(names) : names[i] = names[j] => i = j
        /\ \A p \in Procs :
             Updated(p) =>
             LET old == Before(p)
                 name == metadata[p].name
             IN  IF \E i \in 1..Len(old) : old[i].name = name
                 THEN /\ Len(new) = Len(old)
                      /\ \A i \in 1..Len(old) : new[i].name = old[i].name
                 ELSE /\ Len(new) = Len(old) + 1
                      /\ \A i \in 1..Len(old) : new[i].name = old[i].name
                      /\ new[Len(new)].name = name

\* an update for "a" was appended beside the entry of "A", which the update
\* before it had reused
C1_Witness ==
    /\ Updated("r1")
    /\ runs["r1"] = 2
    /\ metadata["r1"].name = nameLowerA
    /\ \E i \in 1..Len(Before("r1")) :
          Before("r1")[i].name = nameA /\ Before("r1")[i].version = << "1" >>
    /\ EntriesNamed(Manifest, nameA) # {}
    /\ Len(Manifest) = Len(Before("r1")) + 1
    /\ Len(Before("r1")) = 2

(***************************************************************************)
(* C2. Updating the manifest for plugin A leaves every other plugin's     *)
(* entry untouched: the entries whose name differs from A are, in order,  *)
(* the same after the update as before it, with the same attributes,      *)
(* child tags and text values.                                            *)
(***************************************************************************)
C2_OthersUntouched ==
    \A p \in Procs :
        Updated(p) =>
            LET old == Before(p)
                new == Manifest
            IN  OtherEntries(new, metadata[p].name) = OtherEntries(old, metadata[p].name)

\* the entry of "A" was rewritten in a manifest that also holds "Z"
C2_Witness ==
    /\ Updated("r1")
    /\ metadata["r1"].name = nameA
    /\ xmlFile # atStart["r1"].xml
    /\ EntriesNamed(Before("r1"), nameA) # {}
    /\ EntriesNamed(Manifest, << "Z" >>) # {}

(***************************************************************************)
(* C3. The manifest update is idempotent in content: an update with the   *)
(* metadata of the update that wrote the manifest leaves exactly one      *)
(* entry for the plugin and every value of the document as it was.        *)
(***************************************************************************)
C3_Idempotent ==
    \A p \in Procs :
        (Updated(p) /\ repeated) =>
            LET new == Manifest
            IN  /\ new = Before(p)
                /\ Cardinality(EntriesNamed(new, metadata[p].name)) = 1

\* a second update with the same metadata has replaced the manifest
C3_Witness ==
    /\ Updated("r1")
    /\ repeated
    /\ runs["r1"] = 2
    /\ Len(Manifest) > 1


(***************************************************************************)
(* C4. At every point of a manifest write the destination plugins.xml is  *)
(* the complete previous document or the complete new one: never          *)
(* part-written, never missing if it existed, and unchanged after a write *)
(* to the temporary file or a rename that failed.                         *)
(***************************************************************************)
C4_AtomicWrite ==
    /\ xmlFile.kind # "partial"
    /\ \A p \in Procs :
          /\ InWrite(p) =>
                /\ \/ xmlFile = atStart[p].xml
                   \/ xmlFile = FileDoc(SerializeTree(tree[p]))
                /\ atStart[p].xml.kind # "absent" => xmlFile.kind # "absent"
          /\ failure[p].place \in { "mkstemp", "close", "write", "replace" } =>
                xmlFile = atStart[p].xml

\* the write to the temporary file failed part-way, beside an existing manifest
C4_Witness ==
    /\ pc["r1"] = "write_finally"
    /\ failure["r1"].place = "write"
    /\ tmpFile["r1"].kind = "partial"
    /\ xmlFile.kind = "doc"
    /\ tree["r1"] # Before("r1")

(***************************************************************************)
(* C5. A manifest file that exists but cannot be parsed makes the update  *)
(* fail with ReleaseScriptError and stays on disk as it was: the update   *)
(* goes no further than loading it.  Only an absent file gives a new      *)
(* empty root, without an error; an existing one gives its own entries.   *)
(***************************************************************************)
C5_UnparsableManifestKept ==
    \A p \in Procs :
        /\ (runs[p] > 0 /\ atStart[p].xml.kind = "malformed") =>
              /\ xmlFile = atStart[p].xml
              /\ tree[p] = << >>
              /\ pc[p] \in { "idle", "get_plugin_metadata", "derive_release_name",
                             "get_repository_path", "load_xml", "main_except" }
              /\ (Finished(p) /\ failure[p].step = "update_manifest"
                    /\ failure[p].place \notin { "url_scheme", "mkdir" }) =>
                    /\ failure[p].place = "parse"
                    /\ pending[p] = "ReleaseScriptError"
                    /\ exitCode[p] = << 1 >>
        /\ failure[p].place = "parse" => atStart[p].xml.kind = "malformed"
        /\ pc[p] = "update_node" =>
              /\ failure[p] = NoFailure
              /\ atStart[p].xml.kind \in { "absent", "doc" }
              /\ atStart[p].xml.kind = "absent" => tree[p] = << >>
              /\ atStart[p].xml.kind = "doc" =>
                    (tree[p] = Before(p) /\ tree[p] # << >>)

\* a run has ended with exit code 1 on the unparsable manifest
C5_Witness ==
    /\ Finished("r1")
    /\ failure["r1"].place = "parse"
    /\ exitCode["r1"] = << 1 >>
    /\ xmlFile = FileMalformed

(***************************************************************************)
(* C6. When the package name differs from the plugin name with spaces     *)
(* replaced by underscores, package_plugin fails with ReleaseScriptError   *)
(* before an archive is opened: the archives of the repository are those  *)
(* that were there when the run started, none created and none modified.  *)
(***************************************************************************)
C6_NameMismatchBeforeArchive ==
    \A p \in Procs :
        ( /\ Len(steps[p]) >= 5
          /\ ~ Underscored(metadata[p].name, metadata[p].plugin_package_name) ) =>
            /\ failure[p].place = "name_mismatch"
            /\ pending[p] = "ReleaseScriptError"
            /\ zipFiles = atStart[p].zips
            /\ pc[p] \in { "main_except", "idle" }
            /\ Finished(p) => exitCode[p] = << 1 >>

\* the name check failed while the archive of an earlier release was in place
C6_Witness ==
    /\ Finished("r1")
    /\ failure["r1"].place = "name_mismatch"
    /\ metadata["r1"].name = nameA
    /\ ZipFileName(nameA) \in DOMAIN zipFiles
    /\ zipFiles[ZipFileName(nameA)].state = "complete"

(***************************************************************************)
(* C7. After a successful run whose configured name carries "(dev)", the  *)
(* manifest has exactly one entry named by the release name (the marker   *)
(* and the white space around it removed), the entries under the          *)
(* configured name are those that were there before, and that one entry   *)
(* has the configured version, file_name = the release name with spaces   *)
(* as underscores + ".zip", and download_url = the base URL without its   *)
(* trailing slashes + "/" + that file name.                               *)
(***************************************************************************)
C7_DevNameReleased ==
    \A p \in Procs :
        ( /\ Finished(p)
          /\ exitCode[p] = << 0 >>
          /\ Contains(originalName[p], DevMarker) ) =>
            LET new == Manifest
                old == Before(p)
                orig == originalName[p]
                url == metadata[p].url_base
                hits == { i \in 1..Len(new) : MarkerRemoved(orig, new[i].name) }
            IN  /\ Cardinality(hits) = 1
                /\ \A i \in 1..Len(new) :
                      new[i].name = orig => \E j \in 1..Len(old) : old[j] = new[i]
                /\ \A i \in hits :
                      LET file == new[i].child["file_name"]
                          stem == SubSeq(file, 1, Len(file) - Len(cZip))
                      IN  /\ new[i].name # orig
                          /\ new[i].version = metadata[p].version
                          /\ new[i].child["version"] = metadata[p].version
                          /\ EndsWith(file, cZip)
                          /\ Underscored(new[i].name, stem)
                          /\ \E k \in 0..Len(url) :
                                /\ WithoutTrailingSlash(url, SubSeq(url, 1, k))
                                /\ new[i].child["download_url"]
                                     = SubSeq(url, 1, k) \o << "/" >> \o file

\* "A B (dev)" was released as "A B", into A_B.zip
C7_Witness ==
    /\ Finished("r1")
    /\ exitCode["r1"] = << 0 >>
    /\ originalName["r1"] = nameABDev
    /\ EntriesNamed(Manifest, << "A", " ", "B" >>) # {}
    /\ << "A", "_", "B" >> \o cZip \in DOMAIN zipFiles

(***************************************************************************)
(* C8. The steps of a run are taken in the order read metadata, derive    *)
(* release name, update manifest, compile translations, package archive,  *)
(* report.  A step that fails is the last step of the run and the run     *)
(* does not return 0: after a failed compile no archive is written, and   *)
(* an empty release name leaves manifest and archives untouched.          *)
(***************************************************************************)
C8_StepsInOrderAndFatal ==
    \A p \in Procs :
        /\ IsPrefix(steps[p], ReleaseSteps)
        /\ failure[p] # NoFailure =>
              /\ steps[p][Len(steps[p])] = failure[p].step
              /\ exitCode[p] # << 0 >>
              /\ pc[p] \in { "write_finally", "main_except", "idle" }
        /\ exitCode[p] = << 0 >> =>
              (steps[p] = ReleaseSteps /\ failure[p] = NoFailure)
        /\ failure[p].step = "compile_translations" => zipFiles = atStart[p].zips
        /\ (Len(steps[p]) >= 2 /\ originalName[p] = DevMarker) =>
              /\ failure[p].step = "derive_release_name"
              /\ xmlFile = atStart[p].xml
              /\ zipFiles = atStart[p].zips
              /\ tmpFile[p] = FileAbsent

\* lrelease failed after the manifest had been updated: the run ended there
C8_Witness ==
    /\ Finished("r1")
    /\ failure["r1"].step = "compile_translations"
    /\ xmlFile # atStart["r1"].xml
    /\ steps["r1"] = SubSeq(ReleaseSteps, 1, 4)
    /\ exitCode["r1"] = << 1 >>

(***************************************************************************)
(* C9. main returns 0 exactly when every step completed, returns 1        *)
(* exactly when a step raised ReleaseScriptError, and returns nothing     *)
(* when a step raised another exception, which leaves main uncaught.      *)
(***************************************************************************)
C9_ExitCodes ==
    \A p \in Procs :
        Finished(p) =>
            /\ exitCode[p] = << 0 >> <=> (pending[p] = "none" /\ steps[p] = ReleaseSteps)
            /\ exitCode[p] = << 1 >> <=> pending[p] = "ReleaseScriptError"
            /\ exitCode[p] = << >> <=> pending[p] \notin { "none", "ReleaseScriptError" }
            /\ exitCode[p] = << >> <=> uncaught[p] # "none"
            /\ uncaught[p] # "none" => uncaught[p] = pending[p]
            /\ pending[p] = "none" <=> failure[p] = NoFailure

\* lrelease was not found: FileNotFoundError left main
C9_Witness ==
    /\ Finished("r1")
    /\ uncaught["r1"] = "FileNotFoundError"
    /\ exitCode["r1"] = << >>

(***************************************************************************)
(* C10. Every filesystem failure while the distribution directory is      *)
(* created, the manifest is written (its temporary file included) or the  *)
(* archive is written ends the run with exit code 1, as a                 *)
(* ReleaseScriptError, and never as an uncaught exception.                *)
(***************************************************************************)
C10_FilesystemFailuresReported ==
    \A p \in Procs :
        ( /\ Finished(p)
          /\ failure[p].cause = "OSError"
          /\ failure[p].place \in FilesystemPlaces ) =>
            /\ pending[p] = "ReleaseScriptError"
            /\ exitCode[p] = << 1 >>
            /\ uncaught[p] = "none"

(***************************************************************************)
(* C11. Every archive package_plugin produces holds exactly one copy of   *)
(* the metadata file, at <plugin_package_name>/metadata.txt, written from *)
(* memory and never from disk, in which the line of the option name       *)
(* carries the release name and every other line is the line of the file. *)
(***************************************************************************)
C11_OneCleanMetadataCopy ==
    \A p \in Procs :
        (Finished(p) /\ exitCode[p] = << 0 >>) =>
            LET entries == zipFiles[ZipOf(p)].entries
                lines == metadataFile[p].lines
                where == metadata[p].plugin_package_name \o << "/" >> \o cMetadataTxt
                copies == { i \in 1..Len(entries) : entries[i].arcname = where }
            IN  /\ zipFiles[ZipOf(p)].state = "complete"
                /\ Cardinality(copies) = 1
                /\ \A i \in copies :
                      /\ entries[i].from = "memory"
                      /\ Len(entries[i].content) = Len(lines)
                      /\ \A j \in 1..Len(lines) :
                            IF lines[j].kind = "option" /\ lines[j].key = "name"
                            THEN /\ entries[i].content[j].key = "name"
                                 /\ entries[i].content[j].value = metadata[p].name
                            ELSE entries[i].content[j] = lines[j]

\* the relative paths of the files on disk
DiskPaths ==
    { JoinPath(ProjectFiles[i].dir, ProjectFiles[i].name) : i \in 1..Len(ProjectFiles) }

\* run p has written the listed individual files to its archive
FilesAdded(p) ==
    \/ pc[p] \in { "zip_dirs", "zip_close", "report", "main_return" }
    \/ Finished(p) /\ exitCode[p] = << 0 >>

(***************************************************************************)
(* C12. A listed file that is not on disk does not abort packaging: once  *)
(* the listed files have been added, the archive has an entry             *)
(* <plugin_package_name>/<relative path> for exactly the listed files     *)
(* that exist, and a failure of the package step is the name check or an  *)
(* OSError of the archive, never the missing file.                        *)
(***************************************************************************)
C12_MissingFilesSkipped ==
    \A p \in Procs :
        /\ FilesAdded(p) =>
              LET entries == zipFiles[ZipOf(p)].entries
                  files == metadata[p].files_to_package
                  pkg == metadata[p].plugin_package_name
              IN  \A k \in 1..Len(files) :
                     (PathOf(files[k]) \in DiskPaths)
                        <=> \E i \in 1..Len(entries) :
                                entries[i].arcname = pkg \o << "/" >> \o PathOf(files[k])
        /\ failure[p].step = "package_archive" =>
              failure[p].cause \in { "config", "OSError" }

\* a run that lists the missing file x has ended with exit code 0
C12_Witness ==
    /\ Finished("r1")
    /\ exitCode["r1"] = << 0 >>
    /\ \E k \in 1..Len(metadata["r1"].files_to_package) :
          metadata["r1"].files_to_package[k] = << "x" >>
    /\ zipFiles[ZipOf("r1")].state = "complete"
    /\ \E i \in 1..Len(zipFiles[ZipOf("r1")].entries) :
          zipFiles[ZipOf("r1")].entries[i].arcname = << "A", "/", "m" >>

\* the number of entries the listed individual files of run p give
CountFileEntries(p) ==
    LET files == metadata[p].files_to_package
    IN  Cardinality({ k \in 1..Len(files) :
                        files[k] = cMetadataTxt \/ PathOf(files[k]) \in DiskPaths })

\* run p has written the listed directories to its archive
DirsAdded(p) ==
    \/ pc[p] \in { "zip_close", "report", "main_return" }
    \/ Finished(p) /\ exitCode[p] = << 0 >>

\* s occurs in t
Occurs(s, t) == \E a \in 1..(Len(t) + 1) : \E b \in 0..Len(t) : SubSeq(t, a, b) = s

\* the disk file f lies in or below the listed directory d
Below(f, d) == f.dir = d \/ (Len(f.dir) > Len(d) /\ SubSeq(f.dir, 1, Len(d) + 1) = d \o << "/" >>)

\* the path of the directory of f contains an excluded name
InExcluded(p, f) ==
    \E e \in 1..Len(metadata[p].excluded_dirs) : Occurs(metadata[p].excluded_dirs[e], f.dir)

\* the name of f ends with an excluded extension
HasExcludedExtension(p, f) ==
    \E e \in 1..Len(metadata[p].excluded_extensions) :
        LET ext == metadata[p].excluded_extensions[e]
        IN  Len(ext) <= Len(f.name)
            /\ SubSeq(f.name, Len(f.name) - Len(ext) + 1, Len(f.name)) = ext

\* the archive of run p has f among its entries numbered from..Len
HasEntry(p, f, from) ==
    LET entries == zipFiles[ZipOf(p)].entries
    IN  \E i \in from..Len(entries) :
           entries[i].arcname = metadata[p].plugin_package_name \o << "/" >>
                                   \o JoinPath(f.dir, f.name)

\* the files on disk in or below a listed directory of run p
UnderListed(p) ==
    { i \in 1..Len(ProjectFiles) :
        \E d \in 1..Len(metadata[p].dirs_to_package) :
            Below(ProjectFiles[i], metadata[p].dirs_to_package[d]) }

(***************************************************************************)
(* C13, as stated. For every listed directory: no file in or below a      *)
(* directory whose path contains an excluded directory name is in the     *)
(* archive; no file whose name ends with an excluded extension is among   *)
(* the entries added from the listed directories; every other file under  *)
(* a listed directory is in the archive.                                  *)
(***************************************************************************)
C13_ExcludedNowhereInArchive ==
    \A p \in Procs :
        DirsAdded(p) =>
            \A i \in UnderListed(p) :
                LET f == ProjectFiles[i]
                IN  IF InExcluded(p, f) THEN ~ HasEntry(p, f, 1)
                    ELSE IF HasExcludedExtension(p, f)
                         THEN ~ HasEntry(p, f, CountFileEntries(p) + 1)
                         ELSE HasEntry(p, f, 1)

(***************************************************************************)
(* C13, amended. Among the entries added from the listed directories: no  *)
(* file in or below a directory whose walked path contains an excluded    *)
(* directory name, and no file whose name ends with an excluded           *)
(* extension; every other file under a listed directory is among them,    *)
(* and they hold nothing else.                                            *)
(***************************************************************************)
C13_ExclusionsOfWalk ==
    \A p \in Procs :
        DirsAdded(p) =>
            LET from == CountFileEntries(p) + 1
                entries == zipFiles[ZipOf(p)].entries
            IN  /\ \A i \in UnderListed(p) :
                      LET f == ProjectFiles[i]
                      IN  HasEntry(p, f, from)
                            <=> (~ InExcluded(p, f) /\ ~ HasExcludedExtension(p, f))
                /\ \A k \in from..Len(entries) :
                      /\ entries[k].from = "disk"
                      /\ \E i \in UnderListed(p) :
                            entries[k].arcname =
                                metadata[p].plugin_package_name \o << "/" >>
                                   \o JoinPath(ProjectFiles[i].dir, ProjectFiles[i].name)

\* an archive with u/a from the walk of u, without u/b.q and without u/c/a
C13_Witness ==
    /\ Finished("r1")
    /\ exitCode["r1"] = << 0 >>
    /\ metadata["r1"].files_to_package = StrSplit(filesListed)
    /\ metadata["r1"].excluded_dirs = << << "c" >> >>
    /\ Len(zipFiles[ZipOf("r1")].entries) = CountFileEntries("r1") + 1
    /\ zipFiles[ZipOf("r1")].entries[CountFileEntries("r1") + 1].arcname
          = << "A", "/", "u", "/", "a" >>

\* line i of the file is an option of section sec
InSection(lines, i, sec) ==
    \E j \in 1..(i - 1) :
        /\ lines[j].kind = "section" /\ lines[j].key = sec
        /\ \A m \in (j + 1)..(i - 1) : lines[m].kind # "section"

\* the file has a line for the key in the section
KeyInSection(lines, sec, key) ==
    \E i \in 1..Len(lines) :
        /\ lines[i].kind = "option"
        /\ lines[i].key = key
        /\ InSection(lines, i, sec)

SectionPresent(lines, sec) ==
    \E i \in 1..Len(lines) : lines[i].kind = "section" /\ lines[i].key = sec

\* the file is there, with both sections and each required key in its section
AllKeysInSections(file) ==
    /\ file.exists
    /\ \A n \in 1..Len(RequiredOptions) :
          KeyInSection(file.lines, RequiredOptions[n][1], RequiredOptions[n][2])

\* the same, a key of the section [DEFAULT] standing in for a key that a
\* present section does not have
AllKeysGiven(file) ==
    /\ file.exists
    /\ \A n \in 1..Len(RequiredOptions) :
          /\ SectionPresent(file.lines, RequiredOptions[n][1])
          /\ \/ KeyInSection(file.lines, RequiredOptions[n][1], RequiredOptions[n][2])
             \/ KeyInSection(file.lines, "DEFAULT", RequiredOptions[n][2])

\* get_plugin_metadata of run p has raised ReleaseScriptError
ReadFailed(p) ==
    /\ failure[p].step = "read_metadata"
    /\ pending[p] = "ReleaseScriptError"
    /\ metadata[p] = NoMetadata
    /\ pc[p] \in { "main_except", "idle" }
    /\ Finished(p) => exitCode[p] = << 1 >>

\* get_plugin_metadata of run p has returned, and nothing else has run
JustRead(p) == pc[p] = "derive_release_name"

Untouched(p) ==
    /\ xmlFile = atStart[p].xml
    /\ zipFiles = atStart[p].zips
    /\ tmpFile[p] = FileAbsent

(***************************************************************************)
(* C14, as stated. If metadata.txt is absent, or a section is missing, or *)
(* a required key is missing from its section, get_plugin_metadata fails  *)
(* with ReleaseScriptError and returns no record; a record is returned    *)
(* only when all fourteen keys are there, with manifest and archives      *)
(* untouched.                                                             *)
(***************************************************************************)
C14_EveryKeyInItsSection ==
    \A p \in Procs :
        /\ (Len(steps[p]) >= 1 /\ ~ AllKeysInSections(metadataFile[p])) => ReadFailed(p)
        /\ JustRead(p) => (AllKeysInSections(metadataFile[p]) /\ Untouched(p))

(***************************************************************************)
(* C14, amended. The same, where a key missing from a present section     *)
(* makes get_plugin_metadata fail only if the section [DEFAULT] of the    *)
(* file does not have it either.                                          *)
(***************************************************************************)
C14_EveryKeyGiven ==
    \A p \in Procs :
        /\ (Len(steps[p]) >= 1 /\ ~ AllKeysGiven(metadataFile[p])) => ReadFailed(p)
        /\ JustRead(p) =>
              /\ AllKeysGiven(metadataFile[p])
              /\ Untouched(p)
              /\ metadata[p] # NoMetadata

\* the file without the key version has made the second run end with exit
\* code 1, after the first run had written manifest and archive
C14_Witness ==
    /\ Finished("r1")
    /\ runs["r1"] = 2
    /\ metadataFile["r1"].exists
    /\ SectionPresent(metadataFile["r1"].lines, "general")
    /\ ~ KeyInSection(metadataFile["r1"].lines, "general", "version")
    /\ ~ KeyInSection(metadataFile["r1"].lines, "DEFAULT", "version")
    /\ failure["r1"].place = "no_option"
    /\ exitCode["r1"] = << 1 >>
    /\ xmlFile.kind = "doc"
    /\ zipFiles # << >>

\* the accessors of the two references and of what is derived from them
Accessors ==
    { "iface", "plugin_dir", "message_bar", "resources_path", "icons_path",
      "templates_path" }

\* init of module m has not been called: accessor calls leave the references
\* alone, so this is true after a call if it was true before it
Uninitialised(m) == ctx_iface[m] = cNone /\ ctx_plugin_dir[m] = cNone

\* the error type a module raises for a violated precondition of the programmer
InternalError(m) == IF m = "context" THEN "CustomRuntimeError" ELSE "ContextRuntimeError"

\* the stored value, or the value derived from it, that an accessor is to return
Stored(m, call) ==
    CASE call = "iface" -> << ctx_iface[m] >>
      [] call = "plugin_dir" -> << ctx_plugin_dir[m] >>
      [] call = "resources_path" -> << ctx_plugin_dir[m], "resources" >>
      [] call = "icons_path" -> << ctx_plugin_dir[m], "resources", "icons" >>
      [] call = "templates_path" -> << ctx_plugin_dir[m], "resources", "templates" >>
      [] call = "message_bar" ->
            IF ctx_iface[m] = "i1" THEN << "messageBar of i1" >> ELSE << cNone >>

(***************************************************************************)
(* C15, as stated. Each of iface, plugin_dir, message_bar, resources_path,*)
(* icons_path and templates_path raises the internal error and returns    *)
(* nothing when called before init, and returns the stored or derived     *)
(* value when called after init.                                          *)
(***************************************************************************)
C15_EveryAccessorFailsBeforeInit ==
    result.call \in Accessors =>
        IF Uninitialised(result.module)
        THEN /\ result.outcome = "raises"
             /\ result.value = << InternalError(result.module) >>
        ELSE /\ result.outcome = "returns"
             /\ result.value = Stored(result.module, result.call)

(***************************************************************************)
(* C15, amended. The same for iface, plugin_dir, resources_path,          *)
(* icons_path and templates_path; message_bar called before init returns  *)
(* None and raises nothing.                                               *)
(***************************************************************************)
C15_AccessorsButMessageBarFail ==
    result.call \in Accessors =>
        IF Uninitialised(result.module)
        THEN IF result.call = "message_bar"
             THEN result.outcome = "returns" /\ result.value = << cNone >>
             ELSE /\ result.outcome = "raises"
                  /\ result.value = << InternalError(result.module) >>
                  /\ effects # << >>
        ELSE /\ result.outcome = "returns"
             /\ result.value = Stored(result.module, result.call)
             /\ effects = << >>

\* icons_path has raised in the module that is not initialised, after init of
\* the other module
C15_Witness ==
    /\ result.call = "icons_path"
    /\ result.module = "modules.context"
    /\ result.outcome = "raises"
    /\ Uninitialised("modules.context")
    /\ ~ Uninitialised("context")

\* both references of module m are set
BothSet(m) == ctx_iface[m] # cNone /\ ctx_plugin_dir[m] # cNone

(***************************************************************************)
(* C16, as stated. Once an init call has set both references, no init     *)
(* call and no accessor call changes them again.                          *)
(***************************************************************************)
C16_WriteOnce ==
    [][ \A m \in Modules :
          BothSet(m) => /\ ctx_iface'[m] = ctx_iface[m]
                        /\ ctx_plugin_dir'[m] = ctx_plugin_dir[m] ]_vars

(***************************************************************************)
(* C16, amended. The references change only in an init call of their      *)
(* module, which sets both to its arguments, also when they were set      *)
(* before; no accessor call changes them.                                 *)
(***************************************************************************)
C16_OnlyInitWrites ==
    [][ \A m \in Modules :
          /\ (ctx_iface'[m] # ctx_iface[m] \/ ctx_plugin_dir'[m] # ctx_plugin_dir[m])
                => (result'.call = "init" /\ result'.module = m)
          /\ (result'.call = "init" /\ result'.module = m /\ result' # result)
                => << ctx_iface'[m], ctx_plugin_dir'[m] >> = result'.value ]_vars

\* after a second init, with other arguments, an accessor returns the new value
C16_Witness ==
    /\ reinit
    /\ result.call = "plugin_dir"
    /\ result.module = "context"
    /\ result.value = << "d2" >>
    /\ ctx_iface["context"] = "i2"

\* a call of project_path of some module has just ended; the project was not
\* changed in the step
ProjectPathCalled ==
    /\ result'.call = "project_path"
    /\ project' = project
    /\ << result', effects', barWidgets' >> # << result, effects, barWidgets >>

(***************************************************************************)
(* C17. project_path, called while the open project has never been saved, *)
(* raises the user-facing error, whose type is not the internal error's   *)
(* type of the module; called with a saved project it returns the path of *)
(* the project file and raises nothing.                                   *)
(***************************************************************************)
C17_UnsavedProjectIsUserError ==
    [][ ProjectPathCalled =>
          /\ project = "unsaved" =>
                /\ result'.outcome = "raises"
                /\ result'.value # << InternalError(result'.module) >>
          /\ project = "saved" =>
                /\ result'.outcome = "returns"
                /\ result'.value = << "project.qgz" >>
                /\ effects' = << >> ]_vars

\* the severity the host log gets for an error category
SeverityOf(exception) ==
    IF exception = "CustomRuntimeError" THEN "Critical" ELSE "Warning"

\* the last call went through raise_runtime_error or raise_user_error: it is
\* a call of one of the two, or a failed call of context.py, which raises
\* through them only
RaisedByCategory ==
    \/ result.call \in { "raise_runtime_error", "raise_user_error" }
    \/ result.module = "context" /\ result.outcome = "raises"

(***************************************************************************)
(* C18. A call of raise_runtime_error or raise_user_error first writes to *)
(* the host log, at Critical for the internal and at Warning for the user *)
(* category, then displays, then raises the error of the category. With a *)
(* message bar the display clears the bar and pushes the message at the   *)
(* same severity; without one, as before init, it is one more log line.   *)
(* In both cases the raise is the last effect and nothing else is raised. *)
(***************************************************************************)
C18_LogDisplayRaise ==
    RaisedByCategory =>
        LET exception == result.value[1]
            last == Len(effects)
        IN  /\ result.outcome = "raises"
            /\ exception \in { "CustomRuntimeError", "CustomUserError" }
            /\ result.call = "raise_runtime_error" => exception = "CustomRuntimeError"
            /\ result.call = "raise_user_error" => exception = "CustomUserError"
            /\ last >= 3
            /\ effects[1].op = "logMessage"
            /\ effects[1].level = SeverityOf(exception)
            /\ effects[last] = RaiseError(exception, effects[last].text)
            /\ \A i \in 1 .. (last - 1) : effects[i].op # "raise"
            /\ IF message_bar("context") # cNone
               THEN /\ last = 4
                    /\ effects[2] = ClearWidgets
                    /\ effects[3] = PushMessage(SeverityOf(exception), effects[last].text)
                    /\ barWidgets = << SeverityOf(exception) >>
               ELSE /\ last = 3
                    /\ effects[2].op = "logMessage"

\* raise_user_error before init: the display was a log line, the raise followed
C18_Witness ==
    /\ result.call = "raise_user_error"
    /\ Uninitialised("context")
    /\ Len(effects) = 3
    /\ effects[2].op = "logMessage"
    /\ effects[3].op = "raise"
    /\ result.value = << "CustomUserError" >>

\* every machine has released once and main returned 0 on each
BothSucceeded == \A p \in Procs : Finished(p) /\ exitCode[p] = << 0 >>

\* root has the entry a release with metadata md leaves: md's name and version
HasUpdate(root, md) ==
    \E i \in 1..Len(root) : root[i].name = md.name /\ root[i].version = md.version

(***************************************************************************)
(* C19. Two runs for different plugins share plugins.xml without a lock:  *)
(* when both have reported success the file is the document of the run    *)
(* that replaced it last, made from what that run had loaded. It holds    *)
(* the last writer's update, and the other run's update only if the last  *)
(* writer loaded the file after the other had replaced it; so a state is  *)
(* reachable where both succeeded and the earlier writer's update is lost.*)
(***************************************************************************)
C19_LastWriterWins ==
    BothSucceeded =>
        \E w \in Procs :
            /\ writtenBy = metadata[w]
            /\ xmlFile = FileDoc(SerializeTree(tree[w]))
            /\ HasUpdate(Manifest, metadata[w])
            /\ \A o \in Procs \ { w } :
                  HasUpdate(Manifest, metadata[o]) <=> HasUpdate(tree[w], metadata[o])

\* both runs succeeded, r2 wrote last, and the update of r1 is not in the file
C19_Witness ==
    /\ BothSucceeded
    /\ "update_manifest" \in { steps["r1"][i] : i \in 1..Len(steps["r1"]) }
    /\ failure["r1"] = NoFailure
    /\ writtenBy = metadata["r2"]
    /\ HasUpdate(Manifest, metadata["r2"])
    /\ ~ HasUpdate(Manifest, metadata["r1"])
    /\ metadata["r1"].name # metadata["r2"].name

\* the text of an element as a string: ElementTree gives None for no text
TextOf(t) == IF t = None THEN << >> ELSE t

\* in root, the entry named as md has md's version as its attribute and as
\* the text of its version child tag
VersionInSync(root, md) ==
    /\ EntriesNamed(root, md.name) # {}
    /\ \A i \in EntriesNamed(root, md.name) :
          /\ root[i].version = md.version
          /\ root[i].child["version"] # Absent
          /\ TextOf(root[i].child["version"]) = md.version

(***************************************************************************)
(* C20. After a manifest update the entry of the released plugin has the  *)
(* metadata version both as its version attribute and as the text of its  *)
(* version child tag, in the tree the run holds and in plugins.xml as     *)
(* written; also when the entry is new, and when it existed without a     *)
(* version child tag, which the update creates.                           *)
(***************************************************************************)
C20_VersionInSync ==
    \A p \in Procs :
        Updated(p) =>
            /\ VersionInSync(tree[p], metadata[p])
            /\ VersionInSync(Manifest, metadata[p])

\* the entry existed without version attribute and version tag, now has both
C20_Witness ==
    /\ Updated("r1")
    /\ \E i \in EntriesNamed(Before("r1"), metadata["r1"].name) :
          /\ Before("r1")[i].child["version"] = Absent
          /\ Before("r1")[i].version = Absent
    /\ \E i \in EntriesNamed(Manifest, metadata["r1"].name) :
          /\ Manifest[i].child["version"] = metadata["r1"].version
          /\ Manifest[i].version = metadata["r1"].version
    /\ Len(Manifest) = Len(Before("r1"))

\* run p is between the creation of its temporary file and the end of
\* _write_plugin_xml
TmpInUse(p) == pc[p] \in { "tree_write", "replace", "write_finally" }

(***************************************************************************)
(* C21. Once _write_plugin_xml has returned or failed, the temporary file *)
(* the call created is not in the repository directory: after a rename it *)
(* is plugins.xml, and after any failure that follows its creation it has *)
(* been removed.                                                          *)
(***************************************************************************)
C21_NoTemporaryFileLeft ==
    \A p \in Procs :
        /\ ~ TmpInUse(p) => (tmpFile[p] = FileAbsent /\ ~ leftBehind)
        /\ (Updated(p) /\ tmpFile[p] = FileAbsent) =>
              xmlFile = FileDoc(SerializeTree(tree[p]))

\* plugins.xml has the entry of run p's plugin with the version and the
\* download URL of run p's metadata
ManifestAdvertises(p) ==
    \E i \in EntriesNamed(Manifest, metadata[p].name) :
        /\ Manifest[i].version = metadata[p].version
        /\ TextOf(Manifest[i].child["version"]) = metadata[p].version
        /\ Manifest[i].child["download_url"] = DownloadUrl(metadata[p])

\* run p has begun step, one of ReleaseSteps
Begun(p, step) == \E i \in 1..Len(steps[p]) : steps[p][i] = step

\* run p has ended in the compilation of the translations or in packaging
FailedAfterManifest(p) ==
    /\ Finished(p)
    /\ failure[p].step \in { "compile_translations", "package_archive" }

(***************************************************************************)
(* C22. The manifest is persisted before the translations are compiled,   *)
(* the package name is checked and the archive is written. A run that     *)
(* fails in the compilation or in packaging ends with exit code 1, with   *)
(* plugins.xml advertising the new version and download URL, and without  *)
(* having written an archive.                                             *)
(***************************************************************************)
C22_ManifestAheadOfArchive ==
    \A p \in Procs :
        /\ (Begun(p, "compile_translations") /\ ~ Begun(p, "package_archive")) =>
              (ManifestAdvertises(p) /\ zipFiles = atStart[p].zips)
        /\ FailedAfterManifest(p) =>
              /\ exitCode[p] = << 1 >>
              /\ ManifestAdvertises(p)
              /\ zipFiles = atStart[p].zips

=============================================================================
